---- MODULE Spec2Model ----
(***************************************************************************)
(* Model of the lab-extraction pipeline of old/bio-project:                *)
(*   extract_labs.py  read_prompts_from_markdown, normalize_flags_and_     *)
(*                    context, main                                        *)
(*   server.py        _save_uploads_to_temp, _cleanup_paths,               *)
(*                    _process_paths, ingest_labs                          *)
(* One module, one specification per entry point.  Every specification     *)
(* keeps the variables of the other entry points at their idle values.     *)
(***************************************************************************)
EXTENDS Integers, Sequences, FiniteSets, TLC

VARIABLES
    n_pc,       \* normalizer harness: "init", "once", "twice"
    n_data,     \* the decoded JSON object handed to normalize_flags_and_context
    n_names,    \* pdf_names
    n_once,     \* the data after one call
    n_twice,    \* the data after a second call with the same pdf_names
    r_pc,       \* prompt loader harness: "init", "done"
    r_text,     \* the text of the prompt file, a sequence of characters
    r_result,   \* what read_prompts_from_markdown returned or raised
    c_entry,    \* pipeline run: "main" (the CLI) or "_process_paths"
    c_pc,       \* the statement the run has reached
    c_key,      \* OPENAI_API_KEY is set
    c_prompt,   \* the prompt file: NoFile, or its text
    c_files,    \* args.files (main) or input_paths (_process_paths)
    c_dir,      \* --input-dir: NoDir, or the set of its entries
    c_max,      \* args.max_files
    c_paths,    \* input_paths once collected
    c_pdfs,     \* pdf_paths
    c_reply,    \* output_text, what call_model returned
    c_data,     \* data, the decoded and post-processed result
    c_exit,     \* -1 while running; the exit status (1: uncaught exception)
    c_stderr,   \* the messages printed to standard error, in order
    c_net,      \* the number of requests sent to the vendor API
    c_out,      \* the output file: NoFile, or the data written
    s_key,      \* server: OPENAI_API_KEY is set
    s_workers,  \* server: 1 for one event loop, else a worker per request
    s_dirs,     \* server: the directories that exist, as resolved paths
    s_files,    \* server: the regular files that exist, each with its writer
    s_req       \* server: the state of each POST /labs/ingest request

normVars == <<n_pc, n_data, n_names, n_once, n_twice>>
readVars == <<r_pc, r_text, r_result>>
pipeVars == <<c_entry, c_pc, c_key, c_prompt, c_files, c_dir, c_max, c_paths,
              c_pdfs, c_reply, c_data, c_exit, c_stderr, c_net, c_out>>

srvVars == <<s_key, s_workers, s_dirs, s_files, s_req>>

vars == <<normVars, readVars, pipeVars, srvVars>>

(***************************************************************************)
(* Bounds of the model.                                                    *)
(***************************************************************************)
\* numeric lab values range over 0 .. MaxNum
MaxNum == 2
\* longest list of PDF file names handed to the normalizer
MaxNames == 2
\* longest prompt file, in characters
MaxText == 8
\* most file arguments of a pipeline run, and the largest --max-files
MaxArgs == 2
\* the number of POST /labs/ingest requests
NumRequests == 2
\* most files uploaded with one request
MaxUploads == 2

(***************************************************************************)
(* Decoded JSON values (what json.loads returns), tagged by Python type.   *)
(***************************************************************************)
None == [t |-> "NoneType"]
Str(s) == [t |-> "str", s |-> s]
Num(n) == [t |-> "int", n |-> n]
NaN == [t |-> "float", nan |-> TRUE]
Bool(b) == [t |-> "bool", b |-> b]
List(l) == [t |-> "list", l |-> l]
Dict(d) == [t |-> "dict", d |-> d]

\* marks a key that the dict does not hold (only used to build inputs)
Missing == [t |-> "missing"]

\* a dict from a function over keys, dropping the keys marked Missing
MkDict(f) == Dict([k \in {x \in DOMAIN f : f[x] # Missing} |-> f[k]])

\* dict.get(key): the value, or None when the key is absent
Get(d, k) == IF k \in DOMAIN d THEN d[k] ELSE None

\* d[key] = value
Put(d, k, v) == [x \in (DOMAIN d) \cup {k} |-> IF x = k THEN v ELSE d[x]]

\* isinstance(x, dict), isinstance(x, list)
IsDict(x) == x.t = "dict"
IsList(x) == x.t = "list"

\* isinstance(x, (int, float)): bool is a subclass of int in Python
IsIntOrFloat(x) == x.t \in {"int", "float", "bool"}

\* x in (None, ""): equality with None or with the empty string
InNoneOrEmpty(x) == x = None \/ x = Str("")

\* the integer a non-NaN number compares as (True is 1, False is 0)
AsInt(x) == IF x.t = "bool" THEN (IF x.b THEN 1 ELSE 0) ELSE x.n

\* a < b and a > b on Python numbers: every comparison with NaN is False
PyLt(a, b) == a.t # "float" /\ b.t # "float" /\ AsInt(a) < AsInt(b)
PyGt(a, b) == PyLt(b, a)

(***************************************************************************)
(* normalize_flags_and_context                                             *)
(***************************************************************************)
\* the condition of line 163 under which a lab's flag is inferred
Qualifies(lab) ==
    /\ InNoneOrEmpty(Get(lab, "flag"))
    /\ IsIntOrFloat(Get(lab, "value"))
    /\ IsIntOrFloat(Get(lab, "ref_low"))
    /\ IsIntOrFloat(Get(lab, "ref_high"))
    /\ InNoneOrEmpty(Get(lab, "qualifier"))

\* mutant of InferFlag: the range compared exclusively
InferFlagExclusive(value, ref_low, ref_high) ==
    IF ~PyGt(value, ref_low) THEN "L"
    ELSE IF ~PyLt(value, ref_high) THEN "H"
    ELSE "N"

\* lines 164-169: the if / elif / else chain
InferFlag(value, ref_low, ref_high) ==
    IF PyLt(value, ref_low) THEN "L"
    ELSE IF PyGt(value, ref_high) THEN "H"
    ELSE "N"

\* lines 155-169: one iteration of the loop over labs
NormalizeLab(lab) ==
    IF ~IsDict(lab) THEN lab
    ELSE IF Qualifies(lab.d)
         THEN Dict(Put(lab.d, "flag",
                       Str(InferFlag(Get(lab.d, "value"), Get(lab.d, "ref_low"),
                                     Get(lab.d, "ref_high")))))
         ELSE lab

\* list(pdf_names) as a JSON list of strings
NameList(pdf_names) == List([i \in 1..Len(pdf_names) |-> Str(pdf_names[i])])

\* mutant of SetReportIds: the names are appended to the list already there
SetReportIdsAppend(context, pdf_names) ==
    LET old == Get(context, "report_ids")
    IN Put(context, "report_ids",
           IF IsList(old) THEN List(old.l \o NameList(pdf_names).l)
           ELSE NameList(pdf_names))

\* line 151: context["report_ids"] = list(pdf_names)
SetReportIds(context, pdf_names) ==
    Put(context, "report_ids", NameList(pdf_names))

\* lines 146-170; data is the dict itself (the .d of a Dict value)
normalize_flags_and_context(data, pdf_names) ==
    LET context == Get(data, "context")
        ctx == IF IsDict(context) THEN context.d ELSE <<>>
        data1 == Put(data, "context", Dict(SetReportIds(ctx, pdf_names)))
        labs == Get(data1, "labs")
    IN IF IsList(labs)
       THEN Put(data1, "labs",
                List([i \in 1..Len(labs.l) |-> NormalizeLab(labs.l[i])]))
       ELSE data1

(***************************************************************************)
(* Inputs of the normalizer harness.                                       *)
(***************************************************************************)
Nums == {Num(n) : n \in 0..MaxNum}
FlagVals == {Missing, None, Str(""), Str("H")}
ValueVals == Nums \cup {NaN, Bool(TRUE), Str("5")}
RefLowVals == Nums \cup {Str("4")}
RefHighVals == Nums \cup {None}
QualifierVals == {Missing, None, Str(""), Str("trace")}

DictLabs ==
    {MkDict([k \in {"flag", "value", "ref_low", "ref_high", "qualifier"} |->
               CASE k = "flag" -> f
                 [] k = "value" -> v
                 [] k = "ref_low" -> lo
                 [] k = "ref_high" -> hi
                 [] OTHER -> q]) :
        f \in FlagVals, v \in ValueVals, lo \in RefLowVals,
        hi \in RefHighVals, q \in QualifierVals}

\* entries that are not mappings
NonDictLabs == {Str("n/a"), Num(7)}

\* a second entry beside the one that varies: a non-mapping, and a mapping
\* whose flag is to be inferred, its value on both bounds of its range
Fillers ==
    {Str("n/a"),
     MkDict([k \in {"value", "ref_low", "ref_high"} |->
               CASE k = "value" -> Num(1) [] k = "ref_low" -> Num(1)
                 [] OTHER -> Num(1)])}

LabLists ==
    {<<>>} \cup {<<e>> : e \in DictLabs \cup NonDictLabs}
           \cup {<<o, e>> : o \in Fillers, e \in DictLabs}
           \cup {<<e, o>> : o \in Fillers, e \in DictLabs}

LabsVals == {Missing, Str("none"), Dict(<<>>)} \cup {List(l) : l \in LabLists}

ContextVals ==
    {Missing, Str("ctx"),
     Dict(<<>>),
     MkDict([k \in {"report_ids", "patient"} |->
               IF k = "report_ids" THEN List(<<Str("old.pdf")>>) ELSE Str("p1")])}

PdfNames == {"a.pdf", "b.pdf"}

RECURSIVE SeqsUpTo(_, _)
SeqsUpTo(S, n) ==
    IF n = 0 THEN {<<>>}
    ELSE LET shorter == SeqsUpTo(S, n - 1)
         IN shorter \cup {Append(s, x) : s \in {q \in shorter : Len(q) = n - 1}, x \in S}

NormInputs ==
    {MkDict([k \in {"context", "labs", "patient_name"} |->
               CASE k = "context" -> c [] k = "labs" -> l [] OTHER -> Str("pn")]).d :
        c \in ContextVals, l \in LabsVals}

NormIdle ==
    /\ n_pc = "idle"
    /\ n_data = <<>>
    /\ n_names = <<>>
    /\ n_once = <<>>
    /\ n_twice = <<>>

NormStart ==
    /\ n_pc = "init"
    /\ n_data \in NormInputs
    /\ n_names \in SeqsUpTo(PdfNames, MaxNames)
    /\ n_once = <<>>
    /\ n_twice = <<>>

\* the call of lines 105 / 250
Normalize ==
    /\ n_pc = "init"
    /\ n_once' = normalize_flags_and_context(n_data, n_names)
    /\ n_pc' = "once"
    /\ UNCHANGED <<n_data, n_names, n_twice>>
    /\ UNCHANGED <<readVars, pipeVars, srvVars>>

\* a second call on the result, with the same pdf_names
NormalizeAgain ==
    /\ n_pc = "once"
    /\ n_twice' = normalize_flags_and_context(n_once, n_names)
    /\ n_pc' = "twice"
    /\ UNCHANGED <<n_data, n_names, n_once>>
    /\ UNCHANGED <<readVars, pipeVars, srvVars>>

NormNext == Normalize \/ NormalizeAgain

(***************************************************************************)
(* read_prompts_from_markdown.  A text is a sequence of characters; the    *)
(* words SYSTEM and USER are single characters of the alphabet, "x" is any *)
(* other visible text, " " is a blank and "\n" a line break.               *)
(***************************************************************************)
Chars == {" ", "\n", "SYSTEM", "USER", "x"}
Whitespace == {" ", "\n"}

\* the first position of a line break in text, 0 when it has none
FirstBreak(text) ==
    IF \E i \in 1..Len(text) : text[i] = "\n"
    THEN CHOOSE i \in 1..Len(text) :
            text[i] = "\n" /\ \A j \in 1..(i - 1) : text[j] # "\n"
    ELSE 0

\* str.splitlines(): a final line break opens no further line
RECURSIVE splitlines(_)
splitlines(text) ==
    IF text = <<>> THEN <<>>
    ELSE LET k == FirstBreak(text)
         IN IF k = 0 THEN <<text>>
            ELSE <<SubSeq(text, 1, k - 1)>> \o splitlines(SubSeq(text, k + 1, Len(text)))

\* str.strip(): leading and trailing whitespace removed
RECURSIVE strip(_)
strip(str) ==
    IF str = <<>> THEN <<>>
    ELSE IF str[1] \in Whitespace THEN strip(Tail(str))
    ELSE IF str[Len(str)] \in Whitespace THEN strip(SubSeq(str, 1, Len(str) - 1))
    ELSE str

\* "\n".join(lines)
RECURSIVE join(_)
join(lines) ==
    IF lines = <<>> THEN <<>>
    ELSE IF Len(lines) = 1 THEN lines[1]
    ELSE lines[1] \o <<"\n">> \o join(Tail(lines))

\* mutant of find_index: the line must equal the label, blanks included
find_index_exact(lines, label) ==
    IF \E i \in 1..Len(lines) : lines[i] = <<label>>
    THEN (CHOOSE i \in 1..Len(lines) :
             lines[i] = <<label>> /\ \A j \in 1..(i - 1) : lines[j] # <<label>>) - 1
    ELSE -1

\* lines 24-28: the 0-based index of the first line whose strip() is the label
find_index(lines, label) ==
    IF \E i \in 1..Len(lines) : strip(lines[i]) = <<label>>
    THEN (CHOOSE i \in 1..Len(lines) :
             /\ strip(lines[i]) = <<label>>
             /\ \A j \in 1..(i - 1) : strip(lines[j]) # <<label>>) - 1
    ELSE -1

\* lines 21-39: the pair of blocks, or the RuntimeError raised
read_prompts_from_markdown(text) ==
    LET lines == splitlines(text)
        system_idx == find_index(lines, "SYSTEM")
        user_idx == find_index(lines, "USER")
        \* lines[system_idx + 1 : user_idx] and lines[user_idx + 1 :], 0-based
        system_block == strip(join(SubSeq(lines, system_idx + 2, user_idx)))
        user_block == strip(join(SubSeq(lines, user_idx + 2, Len(lines))))
    IN IF system_idx = -1 \/ user_idx = -1 \/ user_idx <= system_idx
       THEN [ok |-> FALSE, error |-> "Could not locate SYSTEM and USER blocks"]
       ELSE IF system_block = <<>> \/ user_block = <<>>
       THEN [ok |-> FALSE, error |-> "SYSTEM or USER block appears empty"]
       ELSE [ok |-> TRUE, system |-> system_block, user |-> user_block]

ReadIdle ==
    /\ r_pc = "idle"
    /\ r_text = <<>>
    /\ r_result = [ok |-> FALSE, error |-> "idle"]

ReadStart ==
    /\ r_pc = "init"
    /\ r_text \in UNION {[1..n -> Chars] : n \in 0..MaxText}
    /\ r_result = [ok |-> FALSE, error |-> "not called"]

\* the call of line 190 (main) and of line 83 (_process_paths)
ReadPrompts ==
    /\ r_pc = "init"
    /\ r_result' = read_prompts_from_markdown(r_text)
    /\ r_pc' = "done"
    /\ UNCHANGED r_text
    /\ UNCHANGED <<normVars, pipeVars, srvVars>>

ReadNext == ReadPrompts

(***************************************************************************)
(* File classification (is_image_file, is_pdf_file).  A path is a sequence *)
(* of components; its name is the last one.                                *)
(***************************************************************************)
\* Path.name
Name(path) == path[Len(path)]

\* Path.suffix of the file names the model uses
Suffix(name) ==
    CASE name \in {"a.pdf", "x.pdf", "gone.pdf"} -> ".pdf"
      [] name = "b.PDF" -> ".PDF"
      [] name = "c.png" -> ".png"
      [] name = "n.txt" -> ".txt"
      [] OTHER -> ""

\* str.lower() of a suffix
Lower(ext) == IF ext = ".PDF" THEN ".pdf" ELSE ext

ImageSuffixes == {".png", ".jpg", ".jpeg", ".webp", ".gif", ".bmp", ".tif", ".tiff", ".heic"}

is_image_file(path) == Lower(Suffix(Name(path))) \in ImageSuffixes

is_pdf_file(path) == Lower(Suffix(Name(path))) = ".pdf"

(***************************************************************************)
(* The post-processing both entry points share: json.loads, the "raw"      *)
(* wrapper, normalize_flags_and_context on a dict.                         *)
(***************************************************************************)
\* mutant of pdf_names_of: a name is listed once
pdf_names_unique(pdf_paths) ==
    LET names == [i \in 1..Len(pdf_paths) |-> Name(pdf_paths[i])]
        keep == {i \in 1..Len(names) : \A j \in 1..(i - 1) : names[j] # names[i]}
        RECURSIVE pick(_)
        pick(i) == IF i > Len(names) THEN <<>>
                   ELSE (IF i \in keep THEN <<names[i]>> ELSE <<>>) \o pick(i + 1)
    IN pick(1)

\* pdf_names = [p.name for p in pdf_paths]
pdf_names_of(pdf_paths) == [i \in 1..Len(pdf_paths) |-> Name(pdf_paths[i])]

\* extract_labs.py 239-252 and server.py 95-107.  output_text is a record:
\* valid JSON with its decoded value, or a text json.loads rejects
PostProcess(output_text, pdf_paths) ==
    LET data == IF output_text.valid THEN output_text.value
                ELSE Dict([k \in {"raw"} |-> Str(output_text.text)])
    IN IF IsDict(data)
       THEN Dict(normalize_flags_and_context(data.d, pdf_names_of(pdf_paths)))
       ELSE data

(***************************************************************************)
(* A pipeline run: main of extract_labs.py, or _process_paths of server.py *)
(* called on its own.                                                      *)
(***************************************************************************)
\* a path that does not exist, a regular file with its text, a directory with
\* the names of its entries
NoFile == [t |-> "absent"]
NoDir == [t |-> "absent"]
TextFile(text) == [t |-> "file", text |-> text]
Directory(entries) == [t |-> "dir", entries |-> entries]

\* the working directory: regular files, and one directory
CwdFiles == {<<"a.pdf">>, <<"c.png">>, <<"n.txt">>, <<"sub", "a.pdf">>}
CwdDirs == {<<"sub">>}
ArgPaths == CwdFiles \cup CwdDirs \cup {<<"gone.pdf">>}

\* p.exists() and p.is_file()
IsFile(path) == path \in CwdFiles

\* what --input-dir may hold: regular files, and a sub-directory
DirEntries == {"a.pdf", "b.PDF", "n.txt", "sub"}
DirEntryIsFile(name) == name # "sub"

\* sorted(input_dir.iterdir()): the entries in ascending order of name
Rank(name) == CASE name = "a.pdf" -> 1 [] name = "b.PDF" -> 2
                [] name = "n.txt" -> 3 [] OTHER -> 4
RECURSIVE Sorted(_)
Sorted(names) ==
    IF names = {} THEN <<>>
    ELSE LET least == CHOOSE x \in names : \A y \in names : Rank(x) <= Rank(y)
         IN <<least>> \o Sorted(names \ {least})

PromptTexts ==
    {<<"SYSTEM", "\n", "x", "\n", "USER", "\n", "x">>, <<"x", "\n", "USER">>}

\* what the model may answer: JSON objects, other JSON values, and no JSON
ReplyObjects ==
    {MkDict([k \in {"context", "labs"} |->
               IF k = "context" THEN c ELSE l]) :
        c \in ContextVals,
        l \in {Missing, Str("none"), List(<<CHOOSE o \in Fillers : IsDict(o)>>)}}
Replies ==
    {[valid |-> TRUE, value |-> v] :
        v \in ReplyObjects \cup {List(<<>>), Str("text"), Num(1), None}}
    \cup {[valid |-> FALSE, text |-> "Sorry"]}
NoReply == [valid |-> FALSE, text |-> ""]

PipeIdle ==
    /\ c_entry = "idle" /\ c_pc = "idle" /\ c_key = FALSE /\ c_prompt = NoFile
    /\ c_files = <<>> /\ c_dir = NoDir /\ c_max = 0 /\ c_paths = <<>>
    /\ c_pdfs = <<>> /\ c_reply = NoReply /\ c_data = None /\ c_exit = -1
    /\ c_stderr = <<>> /\ c_net = 0 /\ c_out = NoFile

PipeStart ==
    /\ c_entry \in {"main", "_process_paths"}
    /\ c_prompt \in {NoFile} \cup {TextFile(x) : x \in PromptTexts}
    /\ c_files \in SeqsUpTo(ArgPaths, MaxArgs)
    /\ IF c_entry = "main"
       THEN /\ c_pc = "check_key"
            /\ c_key \in BOOLEAN
            /\ c_dir \in {NoDir} \cup {Directory(e) : e \in SUBSET DirEntries}
            /\ c_max \in 0..MaxArgs
       ELSE /\ c_pc = "split"
            /\ c_key = TRUE
            /\ c_dir = NoDir
            /\ c_max = 0
    /\ c_paths = <<>> /\ c_pdfs = <<>> /\ c_reply = NoReply /\ c_data = None
    /\ c_exit = -1 /\ c_stderr = <<>> /\ c_net = 0 /\ c_out = NoFile

\* return 2 after print(..., file=sys.stderr)
Exit2(message) ==
    /\ c_exit' = 2
    /\ c_stderr' = Append(c_stderr, message)
    /\ c_pc' = "done"

\* an exception nothing catches: the traceback goes to standard error and the
\* interpreter exits with status 1
Uncaught(exception) ==
    /\ c_exit' = 1
    /\ c_stderr' = Append(c_stderr, exception)
    /\ c_pc' = "done"

\* lines 183-186
CliCheckKey ==
    /\ c_entry = "main" /\ c_pc = "check_key"
    /\ IF ~c_key
       THEN Exit2("ERROR: OPENAI_API_KEY is not set")
       ELSE c_pc' = "prompt" /\ UNCHANGED <<c_exit, c_stderr>>
    /\ UNCHANGED <<c_entry, c_key, c_prompt, c_files, c_dir, c_max, c_paths,
                   c_pdfs, c_reply, c_data, c_net, c_out>>
    /\ UNCHANGED <<normVars, readVars, srvVars>>

\* lines 188-190: read_text raises when the file is missing, and
\* read_prompts_from_markdown raises on a malformed file
CliReadPrompt ==
    /\ c_entry = "main" /\ c_pc = "prompt"
    /\ IF c_prompt = NoFile THEN Uncaught("FileNotFoundError")
       ELSE IF ~read_prompts_from_markdown(c_prompt.text).ok THEN Uncaught("RuntimeError")
       ELSE c_pc' = "inputs" /\ UNCHANGED <<c_exit, c_stderr>>
    /\ UNCHANGED <<c_entry, c_key, c_prompt, c_files, c_dir, c_max, c_paths,
                   c_pdfs, c_reply, c_data, c_net, c_out>>
    /\ UNCHANGED <<normVars, readVars, srvVars>>

\* lines 192-211
CliCollectInputs ==
    /\ c_entry = "main" /\ c_pc = "inputs"
    /\ IF c_files # <<>>
       THEN IF \E i \in 1..Len(c_files) : ~IsFile(c_files[i])
            THEN Exit2("ERROR: File not found") /\ UNCHANGED c_paths
            ELSE /\ c_paths' = c_files
                 /\ c_pc' = "classify"
                 /\ UNCHANGED <<c_exit, c_stderr>>
       ELSE IF c_dir = NoDir
            THEN Exit2("ERROR: Input directory not found") /\ UNCHANGED c_paths
            ELSE LET found == SelectSeq([i \in 1..Cardinality(c_dir.entries) |->
                                            <<"input_files", Sorted(c_dir.entries)[i]>>],
                                     LAMBDA q : /\ DirEntryIsFile(Name(q))
                                                /\ (is_image_file(q) \/ is_pdf_file(q)))
                 IN IF found = <<>>
                    THEN Exit2("ERROR: No supported files found in directory") /\ UNCHANGED c_paths
                    ELSE /\ c_paths' = found
                         /\ c_pc' = "classify"
                         /\ UNCHANGED <<c_exit, c_stderr>>
    /\ UNCHANGED <<c_entry, c_key, c_prompt, c_files, c_dir, c_max,
                   c_pdfs, c_reply, c_data, c_net, c_out>>
    /\ UNCHANGED <<normVars, readVars, srvVars>>

\* lines 213-220: --max-files, the split by type, the warning
CliClassify ==
    /\ c_entry = "main" /\ c_pc = "classify"
    /\ LET kept == IF c_max > 0 /\ c_max < Len(c_paths)
                   THEN SubSeq(c_paths, 1, c_max) ELSE c_paths
           other == SelectSeq(kept, LAMBDA q : ~is_image_file(q) /\ ~is_pdf_file(q))
       IN /\ c_paths' = kept
          /\ c_pdfs' = SelectSeq(kept, is_pdf_file)
          /\ c_stderr' = IF other # <<>>
                         THEN Append(c_stderr, "WARNING: Ignoring unsupported file types")
                         ELSE c_stderr
    /\ c_pc' = "upload"
    /\ UNCHANGED <<c_entry, c_key, c_prompt, c_files, c_dir, c_max,
                   c_reply, c_data, c_exit, c_net, c_out>>
    /\ UNCHANGED <<normVars, readVars, srvVars>>

\* server.py 75-76: the split by type
ProcSplit ==
    /\ c_entry = "_process_paths" /\ c_pc = "split"
    /\ c_paths' = c_files
    /\ c_pdfs' = SelectSeq(c_files, is_pdf_file)
    /\ c_pc' = "upload"
    /\ UNCHANGED <<c_entry, c_key, c_prompt, c_files, c_dir, c_max,
                   c_reply, c_data, c_exit, c_stderr, c_net, c_out>>
    /\ UNCHANGED <<normVars, readVars, srvVars>>

\* extract_labs.py 225-228 and server.py 79-80: the images are read, each PDF
\* is uploaded; a file that cannot be read, or a failed upload, raises
PipeUpload ==
    /\ c_pc = "upload"
    /\ \/ /\ \A i \in 1..Len(c_paths) :
                is_image_file(c_paths[i]) \/ is_pdf_file(c_paths[i]) => IsFile(c_paths[i])
          /\ c_net' = c_net + Len(c_pdfs)
          /\ c_pc' = IF c_entry = "main" THEN "call" ELSE "prompt"
          /\ UNCHANGED <<c_exit, c_stderr>>
       \/ /\ \E i \in 1..Len(c_paths) :
                /\ is_image_file(c_paths[i]) \/ is_pdf_file(c_paths[i])
                /\ ~IsFile(c_paths[i])
          /\ Uncaught("FileNotFoundError")
          /\ UNCHANGED c_net
       \/ /\ \A i \in 1..Len(c_paths) :
                is_image_file(c_paths[i]) \/ is_pdf_file(c_paths[i]) => IsFile(c_paths[i])
          /\ \E sent \in 1..Len(c_pdfs) :
                c_net' = c_net + sent
          /\ Uncaught("APIError")
    /\ UNCHANGED <<c_entry, c_key, c_prompt, c_files, c_dir, c_max, c_paths,
                   c_pdfs, c_reply, c_data, c_out>>
    /\ UNCHANGED <<normVars, readVars, srvVars>>

\* server.py 83
ProcReadPrompt ==
    /\ c_entry = "_process_paths" /\ c_pc = "prompt"
    /\ IF c_prompt = NoFile THEN Uncaught("FileNotFoundError")
       ELSE IF ~read_prompts_from_markdown(c_prompt.text).ok THEN Uncaught("RuntimeError")
       ELSE c_pc' = "call" /\ UNCHANGED <<c_exit, c_stderr>>
    /\ UNCHANGED <<c_entry, c_key, c_prompt, c_files, c_dir, c_max, c_paths,
                   c_pdfs, c_reply, c_data, c_net, c_out>>
    /\ UNCHANGED <<normVars, readVars, srvVars>>

\* extract_labs.py 230-237 and server.py 86-93: one request; the vendor answers
\* with some text, or the call raises
PipeCallModel ==
    /\ c_pc = "call"
    /\ c_net' = c_net + 1
    /\ \/ /\ c_reply' \in Replies
          /\ c_pc' = "decode"
          /\ UNCHANGED <<c_exit, c_stderr>>
       \/ /\ Uncaught("APIError")
          /\ UNCHANGED c_reply
    /\ UNCHANGED <<c_entry, c_key, c_prompt, c_files, c_dir, c_max, c_paths,
                   c_pdfs, c_data, c_out>>
    /\ UNCHANGED <<normVars, readVars, srvVars>>

\* extract_labs.py 239-252 and server.py 95-107
PipePostProcess ==
    /\ c_pc = "decode"
    /\ c_data' = PostProcess(c_reply, c_pdfs)
    /\ c_pc' = "write"
    /\ UNCHANGED <<c_entry, c_key, c_prompt, c_files, c_dir, c_max, c_paths,
                   c_pdfs, c_reply, c_exit, c_stderr, c_net, c_out>>
    /\ UNCHANGED <<normVars, readVars, srvVars>>

\* extract_labs.py 254-257: the output file is written, exit status 0
CliWrite ==
    /\ c_entry = "main" /\ c_pc = "write"
    /\ c_out' = c_data
    /\ c_exit' = 0
    /\ c_pc' = "done"
    /\ UNCHANGED <<c_entry, c_key, c_prompt, c_files, c_dir, c_max, c_paths,
                   c_pdfs, c_reply, c_data, c_stderr, c_net>>
    /\ UNCHANGED <<normVars, readVars, srvVars>>

\* server.py 110-117: the write may fail, which is not fatal; data is returned
ProcWriteAndReturn ==
    /\ c_entry = "_process_paths" /\ c_pc = "write"
    /\ c_out' \in {c_data, c_out}
    /\ c_exit' = 0
    /\ c_pc' = "done"
    /\ UNCHANGED <<c_entry, c_key, c_prompt, c_files, c_dir, c_max, c_paths,
                   c_pdfs, c_reply, c_data, c_stderr, c_net>>
    /\ UNCHANGED <<normVars, readVars, srvVars>>

PipeNext ==
    \/ CliCheckKey
    \/ CliReadPrompt
    \/ CliCollectInputs
    \/ CliClassify
    \/ ProcSplit
    \/ PipeUpload
    \/ ProcReadPrompt
    \/ PipeCallModel
    \/ PipePostProcess
    \/ CliWrite
    \/ ProcWriteAndReturn

(***************************************************************************)
(* server.py: the file system.  A path is the sequence of its components   *)
(* below "/"; pathlib keeps ".." components, the operating system resolves *)
(* them when the path is used.                                             *)
(***************************************************************************)
BASE_DIR == <<"srv">>
DEFAULT_OUTPUT == BASE_DIR \o <<"labs.json">>
DEFAULT_PROMPT == BASE_DIR \o <<"ai-prompt.md">>
DEFAULT_INPUT_DIR == BASE_DIR \o <<"input_files">>
\* BASE_DIR / "tmp_uploads"
TmpRoot == BASE_DIR \o <<"tmp_uploads">>

\* Path.parent
Parent(path) == IF path = <<>> THEN <<>> ELSE SubSeq(path, 1, Len(path) - 1)

\* dir / filename: an absolute file name replaces dir
JoinPath(dir, filename) == IF filename.abs THEN filename.parts ELSE dir \o filename.parts

\* no such file or directory
Enoent == <<"?">>

\* what the operating system makes of the components rest, starting in the
\* directory cur: every directory on the way must exist
RECURSIVE ResolveFrom(_, _, _)
ResolveFrom(cur, rest, dirs) ==
    IF rest = <<>> THEN cur
    ELSE IF cur \notin dirs THEN Enoent
    ELSE ResolveFrom(IF rest[1] = ".." THEN Parent(cur) ELSE Append(cur, rest[1]),
                     Tail(rest), dirs)

Resolve(path, dirs) == ResolveFrom(<<>>, path, dirs)

\* path lies below dir, or is dir
Below(path, dir) ==
    Len(path) >= Len(dir) /\ SubSeq(path, 1, Len(dir)) = dir

\* str(path).startswith(str(prefix)), on paths whose component names do not
\* extend one another
StartsWith(path, prefix) == Below(path, prefix)

\* the paths of the regular files
FilePaths(files) == {f.path : f \in files}

\* Path.exists()
Exists(path, dirs, files) ==
    LET target == Resolve(path, dirs)
    IN target # Enoent /\ (target \in dirs \/ target \in FilePaths(files))

\* what shutil.rmtree(path) removes: everything below the directory, and the
\* directory itself unless the path ends in "..", which rmdir refuses
RmtreeRemoves(path, dirs, files) ==
    LET target == Resolve(path, dirs)
    IN IF target = Enoent \/ target \notin dirs THEN {}
       ELSE {q \in dirs \cup FilePaths(files) :
                /\ Below(q, target)
                /\ q = target => path[Len(path)] # ".."}

\* the directories and the files left once a set of paths is removed
DirsWithout(dirs, removed) == dirs \ removed
FilesWithout(files, removed) == {f \in files : f.path \notin removed}

\* lines 53-63: the paths _cleanup_paths removes
CleanupRemoves(paths, dirs, files) ==
    IF paths = <<>> THEN {}
    ELSE LET parent == Parent(paths[1])
         IN IF parent # <<>> /\ Name(parent) = "tmp_uploads" THEN {}
            ELSE IF Exists(parent, dirs, files) /\ StartsWith(parent, TmpRoot)
                 THEN RmtreeRemoves(parent, dirs, files)
                 ELSE {}

(***************************************************************************)
(* server.py: POST /labs/ingest.                                           *)
(***************************************************************************)
Requests == 1..NumRequests

\* str(uuid.uuid4()): a fresh name per request
Uuid(r) == ToString(r)

\* line 42: tmp_dir
TmpDir(r) == Append(TmpRoot, Uuid(r))

\* UploadFile.filename, as the client sent it
UploadNames ==
    {[abs |-> FALSE, parts |-> <<"a.pdf">>],
     [abs |-> FALSE, parts |-> <<"..", "x.pdf">>],
     [abs |-> FALSE, parts |-> <<"..", "..", "x.pdf">>],
     [abs |-> FALSE, parts |-> <<"sub", "x.pdf">>],
     [abs |-> TRUE, parts |-> <<"etc", "x.pdf">>]}

\* what input_files/ may hold
SampleEntries == {"a.pdf", "n.txt"}

\* the writer of the files that were there before any request
Env == 0

NewRequest ==
    [pc |-> "idle", files |-> <<>>, use_sample |-> FALSE, saved |-> <<>>,
     next |-> 1, status |-> 0, sample |-> "unseen", removed |-> {},
     removed_of |-> {}, wrote |-> {}, readfrom |-> {}]

SrvIdle ==
    /\ s_key = FALSE /\ s_workers = 0 /\ s_dirs = {} /\ s_files = {}
    /\ s_req = <<>>

SrvStart ==
    /\ s_key \in BOOLEAN
    /\ s_workers \in {1, NumRequests}
    /\ \E sample \in {NoDir} \cup {Directory(e) : e \in SUBSET SampleEntries},
          prompt \in BOOLEAN :
          /\ s_dirs = {<<>>, <<"etc">>, BASE_DIR}
                        \cup (IF sample = NoDir THEN {} ELSE {DEFAULT_INPUT_DIR})
          /\ s_files = (IF prompt THEN {[path |-> DEFAULT_PROMPT, by |-> Env]} ELSE {})
                        \cup (IF sample = NoDir THEN {}
                              ELSE {[path |-> Append(DEFAULT_INPUT_DIR, e), by |-> Env] :
                                       e \in sample.entries})
    /\ s_req = [r \in Requests |-> NewRequest]

\* the handler of r runs: within one event loop a handler, which never awaits,
\* runs from its first statement to its last before another one starts
MayStart(r) ==
    s_workers > 1 \/ \A q \in Requests \ {r} : s_req[q].pc \in {"idle", "done"}

\* the request arrives with its form fields
SrvReceive(r) ==
    /\ s_req[r].pc = "idle"
    /\ MayStart(r)
    /\ \E files \in SeqsUpTo(UploadNames, MaxUploads), use_sample \in BOOLEAN :
          /\ files # <<>> => ~use_sample
          /\ s_req' = [s_req EXCEPT ![r].pc = "key", ![r].files = files,
                                    ![r].use_sample = use_sample]
    /\ UNCHANGED <<s_key, s_workers, s_dirs, s_files>>
    /\ UNCHANGED <<normVars, readVars, pipeVars>>

\* lines 35-38, 151
SrvEnsureKey(r) ==
    /\ s_req[r].pc = "key"
    /\ s_req' = IF s_key THEN [s_req EXCEPT ![r].pc = "prompt"]
                ELSE [s_req EXCEPT ![r].pc = "done", ![r].status = 500]
    /\ UNCHANGED <<s_key, s_workers, s_dirs, s_files>>
    /\ UNCHANGED <<normVars, readVars, pipeVars>>

\* lines 153-157
SrvCheckPrompt(r) ==
    /\ s_req[r].pc = "prompt"
    /\ s_req' = IF Exists(DEFAULT_PROMPT, s_dirs, s_files)
                THEN [s_req EXCEPT ![r].pc = "select"]
                ELSE [s_req EXCEPT ![r].pc = "done", ![r].status = 400]
    /\ UNCHANGED <<s_key, s_workers, s_dirs, s_files>>
    /\ UNCHANGED <<normVars, readVars, pipeVars>>

\* the names of the regular files directly in input_files/
SampleFiles == {Name(f) : f \in {g \in FilePaths(s_files) : Parent(g) = DEFAULT_INPUT_DIR}}

\* lines 159-169: the choice of the inputs.  iterdir raises when use_sample is
\* set and input_files/ does not exist
SrvSelect(r) ==
    /\ s_req[r].pc = "select"
    /\ LET dir_exists == DEFAULT_INPUT_DIR \in s_dirs
           seen == IF ~dir_exists THEN "absent"
                   ELSE IF SampleFiles = {} THEN "empty" ELSE "files"
           listing == [i \in 1..Cardinality(SampleFiles) |->
                          Append(DEFAULT_INPUT_DIR, Sorted(SampleFiles)[i])]
       IN s_req' =
            IF s_req[r].files # <<>>
            THEN [s_req EXCEPT ![r].pc = "mkdir", ![r].sample = seen]
            ELSE IF s_req[r].use_sample \/ (dir_exists /\ SampleFiles # {})
            THEN IF ~dir_exists
                 THEN [s_req EXCEPT ![r].pc = "finally", ![r].status = 500,
                                    ![r].sample = seen]
                 ELSE [s_req EXCEPT ![r].pc = "check", ![r].sample = seen,
                          ![r].saved = SelectSeq(listing,
                              LAMBDA q : is_image_file(q) \/ is_pdf_file(q))]
            ELSE [s_req EXCEPT ![r].pc = "finally", ![r].status = 400,
                               ![r].sample = seen]
    /\ UNCHANGED <<s_key, s_workers, s_dirs, s_files>>
    /\ UNCHANGED <<normVars, readVars, pipeVars>>

\* lines 42-44: tmp_dir.mkdir(parents=True, exist_ok=True)
SrvMkdir(r) ==
    /\ s_req[r].pc = "mkdir"
    /\ s_dirs' = s_dirs \cup {TmpRoot, TmpDir(r)}
    /\ s_req' = [s_req EXCEPT ![r].pc = "save", ![r].next = 1]
    /\ UNCHANGED <<s_key, s_workers, s_files>>
    /\ UNCHANGED <<normVars, readVars, pipeVars>>

\* lines 45-50: one pass of the loop.  dest.open("wb") raises when the
\* directory of dest does not exist or dest is a directory; the exception
\* leaves _save_uploads_to_temp before saved_paths of ingest_labs is assigned
SrvSaveFile(r) ==
    /\ s_req[r].pc = "save"
    /\ LET i == s_req[r].next
           dest == JoinPath(TmpDir(r), s_req[r].files[i])
           dir == Resolve(Parent(dest), s_dirs)
           target == Append(dir, Name(dest))
       IN IF dir = Enoent \/ dir \notin s_dirs \/ target \in s_dirs
          THEN /\ s_req' = [s_req EXCEPT ![r].pc = "finally", ![r].status = 500]
               /\ UNCHANGED s_files
          ELSE /\ s_files' = {f \in s_files : f.path # target}
                                \cup {[path |-> target, by |-> r]}
               /\ s_req' = [s_req EXCEPT
                    ![r].wrote = @ \cup {target},
                    ![r].next = i + 1,
                    ![r].pc = IF i = Len(s_req[r].files) THEN "check" ELSE "save",
                    ![r].saved = IF i = Len(s_req[r].files)
                                 THEN [k \in 1..i |-> JoinPath(TmpDir(r), s_req[r].files[k])]
                                 ELSE @]
    /\ UNCHANGED <<s_key, s_workers, s_dirs>>
    /\ UNCHANGED <<normVars, readVars, pipeVars>>

\* lines 171-172
SrvCheckEmpty(r) ==
    /\ s_req[r].pc = "check"
    /\ s_req' = IF s_req[r].saved = <<>>
                THEN [s_req EXCEPT ![r].pc = "finally", ![r].status = 400]
                ELSE [s_req EXCEPT ![r].pc = "read"]
    /\ UNCHANGED <<s_key, s_workers, s_dirs, s_files>>
    /\ UNCHANGED <<normVars, readVars, pipeVars>>

\* lines 72-83 of _process_paths: every image and PDF is opened, then the
\* prompt file is read; a file that is gone raises
SrvReadInputs(r) ==
    /\ s_req[r].pc = "read"
    /\ LET used == {i \in 1..Len(s_req[r].saved) :
                       is_image_file(s_req[r].saved[i]) \/ is_pdf_file(s_req[r].saved[i])}
           at(i) == Resolve(s_req[r].saved[i], s_dirs)
           there == /\ \A i \in used : at(i) \in FilePaths(s_files)
                    /\ DEFAULT_PROMPT \in FilePaths(s_files)
       IN s_req' =
            IF there
            THEN [s_req EXCEPT ![r].pc = "model",
                    ![r].readfrom = {f.by : f \in {g \in s_files :
                                        \E i \in used : g.path = at(i)}}]
            ELSE [s_req EXCEPT ![r].pc = "finally", ![r].status = 500]
    /\ UNCHANGED <<s_key, s_workers, s_dirs, s_files>>
    /\ UNCHANGED <<normVars, readVars, pipeVars>>

\* lines 86-107: the call of the model, which may raise, and the decoding
SrvCallModel(r) ==
    /\ s_req[r].pc = "model"
    /\ \/ s_req' = [s_req EXCEPT ![r].pc = "write"]
       \/ s_req' = [s_req EXCEPT ![r].pc = "finally", ![r].status = 500]
    /\ UNCHANGED <<s_key, s_workers, s_dirs, s_files>>
    /\ UNCHANGED <<normVars, readVars, pipeVars>>

\* lines 109-117 and 181: labs.json is overwritten, the data is returned
SrvWrite(r) ==
    /\ s_req[r].pc = "write"
    /\ s_files' = {f \in s_files : f.path # DEFAULT_OUTPUT}
                     \cup {[path |-> DEFAULT_OUTPUT, by |-> r]}
    /\ s_req' = [s_req EXCEPT ![r].pc = "finally", ![r].status = 200]
    /\ UNCHANGED <<s_key, s_workers, s_dirs>>
    /\ UNCHANGED <<normVars, readVars, pipeVars>>

\* lines 182-185: the finally clause
SrvFinally(r) ==
    /\ s_req[r].pc = "finally"
    /\ LET removed == IF s_req[r].files # <<>> /\ s_req[r].saved # <<>>
                      THEN CleanupRemoves(s_req[r].saved, s_dirs, s_files)
                      ELSE {}
       IN /\ s_dirs' = DirsWithout(s_dirs, removed)
          /\ s_files' = FilesWithout(s_files, removed)
          /\ s_req' = [s_req EXCEPT ![r].pc = "done", ![r].removed = removed,
                          ![r].removed_of = {f.by : f \in {g \in s_files : g.path \in removed}}]
    /\ UNCHANGED <<s_key, s_workers>>
    /\ UNCHANGED <<normVars, readVars, pipeVars>>

SrvNext ==
    \E r \in Requests :
        \/ SrvReceive(r)
        \/ SrvEnsureKey(r)
        \/ SrvCheckPrompt(r)
        \/ SrvSelect(r)
        \/ SrvMkdir(r)
        \/ SrvSaveFile(r)
        \/ SrvCheckEmpty(r)
        \/ SrvReadInputs(r)
        \/ SrvCallModel(r)
        \/ SrvWrite(r)
        \/ SrvFinally(r)

(***************************************************************************)
(* Specifications.                                                         *)
(***************************************************************************)
NormInit == NormStart /\ ReadIdle /\ PipeIdle /\ SrvIdle
SpecNorm == NormInit /\ [][NormNext]_vars

ReadInit == ReadStart /\ NormIdle /\ PipeIdle /\ SrvIdle
SpecRead == ReadInit /\ [][ReadNext]_vars

PipeInit == PipeStart /\ NormIdle /\ ReadIdle /\ SrvIdle
SpecPipe == PipeInit /\ [][PipeNext]_vars

SrvInit == SrvStart /\ NormIdle /\ ReadIdle /\ PipeIdle
SpecServer == SrvInit /\ [][SrvNext]_vars

(***************************************************************************)
(* Claims about normalize_flags_and_context (checked under SpecNorm).      *)
(***************************************************************************)
\* a JSON number: an int or a float, not a boolean
IsJsonNumber(x) == x.t \in {"int", "float"}

\* the precondition the claims state for flag inference
ClaimQualifies(lab) ==
    /\ InNoneOrEmpty(Get(lab, "flag"))
    /\ IsJsonNumber(Get(lab, "value"))
    /\ IsJsonNumber(Get(lab, "ref_low"))
    /\ IsJsonNumber(Get(lab, "ref_high"))
    /\ InNoneOrEmpty(Get(lab, "qualifier"))

\* the mapping-typed entries of a list-typed labs of the input
NormLabIdx ==
    IF IsList(Get(n_data, "labs"))
    THEN {i \in 1..Len(n_data["labs"].l) : IsDict(n_data["labs"].l[i])}
    ELSE {}

LabIn(i) == n_data["labs"].l[i].d
LabOut(i) == n_once["labs"].l[i].d

SameBut(d1, d2, k) ==
    /\ DOMAIN d2 = (DOMAIN d1) \cup {k}
    /\ \A x \in (DOMAIN d1) \ {k} : d2[x] = d1[x]

\* C2 as stated: the call changes nothing except context.report_ids and the flag
\* of the entries that qualify (numeric value and bounds, no flag, no qualifier);
\* every other entry, a labs that is not a list, and an absent labs stay as they
\* were.
C2_Frame ==
    n_pc = "once" =>
        /\ DOMAIN n_once = (DOMAIN n_data) \cup {"context"}
        /\ \A k \in (DOMAIN n_data) \ {"context", "labs"} : n_once[k] = n_data[k]
        /\ IsDict(n_once["context"])
        /\ IF IsDict(Get(n_data, "context"))
           THEN SameBut(n_data["context"].d, n_once["context"].d, "report_ids")
           ELSE DOMAIN n_once["context"].d = {"report_ids"}
        /\ "labs" \in DOMAIN n_data =>
              IF ~IsList(n_data["labs"]) THEN n_once["labs"] = n_data["labs"]
              ELSE /\ IsList(n_once["labs"])
                   /\ Len(n_once["labs"].l) = Len(n_data["labs"].l)
                   /\ \A i \in 1..Len(n_data["labs"].l) :
                         LET old == n_data["labs"].l[i]
                             new == n_once["labs"].l[i]
                         IN IF IsDict(old) /\ ClaimQualifies(old.d)
                            THEN IsDict(new) /\ SameBut(old.d, new.d, "flag")
                            ELSE new = old

\* C4: applying the normalizer twice with the same file names gives what
\* applying it once gives.
C4_Idempotent == n_pc = "twice" => n_twice = n_once

\* C4 witness: a second call was made on a result whose first call inferred a
\* flag and replaced report_ids by a non-empty list.
C4_Witness ==
    /\ n_pc = "twice"
    /\ Len(n_names) > 0
    /\ \E i \in NormLabIdx : Qualifies(LabIn(i)) /\ LabOut(i) # LabIn(i)
    /\ IsDict(Get(n_data, "context"))
    /\ Get(n_data["context"].d, "report_ids") # n_once["context"].d["report_ids"]

(***************************************************************************)
(* Claims about read_prompts_from_markdown (checked under SpecRead).       *)
(***************************************************************************)
\* the text of lines i+1 .. j-1 (1-based, exclusive) with the breaks between them
TextBetween(lines, i, j) == join(SubSeq(lines, i + 1, j - 1))

\* some character of lines i+1 .. j-1 is not whitespace
Visible(lines, i, j) ==
    \E k \in (i + 1)..(j - 1) : \E c \in 1..Len(lines[k]) :
        lines[k][c] \notin Whitespace

\* the line is the label once its leading and trailing blanks are dropped
IsMarker(line, label) ==
    \E a \in 1..Len(line) :
        /\ line[a] = label
        /\ \A c \in 1..Len(line) : c # a => line[c] = " "

\* text is neither empty nor starts or ends with whitespace
Trimmed(text) ==
    /\ text # <<>>
    /\ text[1] \notin Whitespace
    /\ text[Len(text)] \notin Whitespace

\* the lines of the prompt file
ReadLines == splitlines(r_text)

PdfIdx == {i \in 1..Len(c_paths) : is_pdf_file(c_paths[i])}

\* the position of the k-th PDF
NthPdf(k) == CHOOSE i \in PdfIdx : Cardinality({j \in PdfIdx : j < i}) = k - 1

\* ids lists the file names of the processed PDFs, in input order, duplicates kept
ListsProcessedPdfs(ids) ==
    /\ IsList(ids)
    /\ Len(ids.l) = Cardinality(PdfIdx)
    /\ \A k \in 1..Len(ids.l) : ids.l[k] = Str(Name(c_paths[NthPdf(k)]))

\* the run completed: main wrote the output file, _process_paths returned
RunCompleted == c_pc = "done" /\ c_exit = 0

EnvironmentError ==
    \/ ~c_key
    \/ c_prompt = NoFile
    \/ c_files # <<>> /\ \E i \in 1..Len(c_files) : ~IsFile(c_files[i])
    \/ c_files = <<>> /\ c_dir = NoDir
    \/ /\ c_files = <<>> /\ c_dir # NoDir
       /\ \A e \in c_dir.entries :
             ~(DirEntryIsFile(e) /\ Lower(Suffix(e)) \in ImageSuffixes \cup {".pdf"})

\* the prompt file is missing or well-formed (a malformed one is not among the
\* cases C7 lists)
PromptMissingOrGood ==
    c_prompt = NoFile \/ read_prompts_from_markdown(c_prompt.text).ok

\* C7 as stated: with the credential missing, the prompt file missing, a named
\* input file missing, the input directory missing or no supported file in it,
\* main returns 2 with a message on standard error, sends nothing to the vendor
\* and writes no output file; unsupported file types alone do not make it
\* return 2.
C7_AsStated ==
    (c_entry = "main" /\ c_pc = "done" /\ PromptMissingOrGood) =>
        /\ EnvironmentError =>
              /\ c_exit = 2
              /\ c_stderr # <<>>
              /\ c_net = 0
              /\ c_out = NoFile
        /\ ~EnvironmentError => c_exit # 2

(***************************************************************************)
(* Claims about POST /labs/ingest (checked under SpecServer).              *)
(***************************************************************************)
\* the requests that carried uploaded files
Uploading == {r \in Requests : s_req[r].files # <<>>}

\* C5 as stated: once a request that carried uploaded files has completed,
\* successfully or not, its scratch directory under tmp_uploads does not exist.
C5_AsStated ==
    \A r \in Uploading : s_req[r].pc = "done" => TmpDir(r) \notin s_dirs

\* C6 as stated: the cleanup of a request removes nothing but what lies inside
\* tmp_uploads (not the scratch root itself, nothing outside it), and every copy
\* of an upload is written into the request's own scratch directory.
C6_AsStated ==
    \A r \in Requests :
        /\ \A q \in s_req[r].removed : Below(q, TmpRoot) /\ q # TmpRoot
        /\ \A w \in s_req[r].wrote : Parent(w) = TmpDir(r)

\* C8 as stated: a request without uploaded files that finds input_files/ absent
\* or without files is answered 400 and creates no scratch directory, whatever
\* use_sample is.
C8_AsStated ==
    \A r \in Requests :
        (/\ s_req[r].pc = "done"
         /\ s_req[r].files = <<>>
         /\ s_req[r].sample \in {"absent", "empty"}) =>
            /\ s_req[r].status = 400
            /\ TmpDir(r) \notin s_dirs

\* C10 as stated: in every interleaving a request with uploads reads no file
\* another request wrote, removes neither another request's scratch directory
\* nor a file another request wrote, and once the requests, all of which carried
\* uploads, are done, labs.json holds the result of a request that wrote it.
C10_AsStated ==
    /\ \A r \in Uploading :
          /\ s_req[r].readfrom \subseteq {r}
          /\ s_req[r].removed_of \cap (Requests \ {r}) = {}
          /\ \A q \in Requests \ {r} : TmpDir(q) \notin s_req[r].removed
    /\ (/\ Uploading = Requests
        /\ \A r \in Requests : s_req[r].pc = "done"
        /\ \E r \in Requests : s_req[r].status = 200) =>
            \E r \in Requests :
               /\ s_req[r].status = 200
               /\ [path |-> DEFAULT_OUTPUT, by |-> r] \in s_files

====
